---- MODULE Spec2Model ----
(***************************************************************************)
(* A model of ubipop/_pulp_client.py: the Pulp client (Pulp), its          *)
(* thread-local HTTP session, the query builder, the search / associate /  *)
(* unassociate operations and the task tracker (wait_for_tasks).           *)
(*                                                                         *)
(* The module holds several specifications over one set of variables; each *)
(* runs one part of the client and leaves the variables of the other parts *)
(* at their initial values:                                                *)
(*   SpecWait      wait_for_tasks / search_tasks against a task server     *)
(*   SpecWaitFair  the same, with the fairness the liveness claim assumes  *)
(*   SpecSession   do_request called by several worker threads             *)
(*   SpecClient    the search, associate and unassociate operations        *)
(*   SpecRetry     one do_request through the retrying transport           *)
(*   SpecPoll      wait_for_tasks against a server answering anything      *)
(*   SpecWaitAny   wait_for_tasks against a server that may not echo ids   *)
(*   SpecIdentity  ModuleDefaults.name_profiles                            *)
(***************************************************************************)
EXTENDS Integers, Sequences, FiniteSets, TLC

(***************************************************************************)
(* Bounds of the model (not program constants).                            *)
(***************************************************************************)
MaxListLen == 3
MaxRounds == 3
NumWorkers == 2
MaxCalls == 2
MaxUnits == 2
MaxItems == 1
MaxProfiles == 2

VARIABLES
    \* ---- wait_for_tasks (lines 178-190) and search_tasks (192-198)
    task_id_list,   \* the argument of wait_for_tasks
    wpc,            \* position of the caller inside wait_for_tasks
    _tasks,         \* the local set _tasks
    results,        \* the local dict results
    statuses,       \* the list search_tasks is building / has returned
    topoll,         \* ids of the current search_tasks loop not yet requested
    \* ---- the task server, and what the run has shown so far
    stuck,          \* stuck[id]: the server never reports id as terminal
    serverEchoes,   \* the server answers a poll of id with task_id = id
    rounds,         \* number of search_tasks calls made (polling rounds)
    sleeps,         \* number of time.sleep(delay) calls made
    firstTerm,      \* firstTerm[id]: round in which id first reported terminal
    lastAnswer,     \* lastAnswer[id]: the last answer to a poll of id
    \* ---- Pulp.__init__ (49-59), _make_session (61-72), do_request (74-91)
    auth,           \* self.auth, given at construction
    local,          \* self.local: local[slot] is the slot's session (0: unset)
    sessions,       \* the requests.Session objects created so far, by identity
    spc,            \* spc[w]: position of worker w inside do_request
    req_type,       \* req_type[w]: the verb of w's current do_request
    calls,          \* calls[w]: number of do_request calls w has made
    used,           \* pairs <<w, s>>: worker w sent a request on session s
    \* ---- search_* (93-176), associate_units / unassociate_units (226-260)
    scenario,       \* which operations this run calls: "assoc" or "search"
    type_ids,       \* the argument type_ids of (un)associate_units
    units,          \* the argument units of (un)associate_units
    resp,           \* what the transport gives back for the operation's POST
    cpc,            \* position of the caller inside the operation
    op,             \* the operation in progress ("none": no operation)
    logi,           \* index of the next unit of the logging loop
    data,           \* the request body (payload) the operation has built
    sargs,          \* the arguments of the search operation called
    events,         \* events[o]: log entries and requests of o, in order
    outcome,        \* outcome[o]: how operation o ended
    \* ---- PulpRetryAdapter (27-43): one request through the retrying transport
    rpc,            \* position of the request: "idle", "sending", "done"
    rverb,          \* the HTTP method of the request
    total_left,     \* Retry.total: retries still allowed
    attempts,       \* number of times the request has been sent
    fails,          \* number of answers so far that called for a retry
    rlast,          \* the status code of the last answer (0: none yet)
    routcome,       \* what the caller gets: "response" or "RetryError"
    rcode,          \* the status code of the response the caller gets
    \* ---- what the run has shown of the polling (search_tasks, 192-198)
    badStatusSeen,  \* some task-status response had a 4xx or 5xx status
    werror,         \* the exception wait_for_tasks raised ("none": none)
    polls,          \* polls[id]: number of GET tasks/{id}/ issued so far
    serverAnswers,  \* what the task server may answer a poll with (AnswerKinds)
    \* ---- do_request (74-91): arguments, requests on the wire, result
    req_data,       \* req_data[w]: the argument data of w's do_request
    wire,           \* wire[w]: the HTTP requests w's last do_request issued
    dret,           \* dret[w]: how w's last do_request ended
    \* ---- the client's local state when an operation was called
    before,         \* before[o]: self.local at the call of operation o
    \* ---- ModuleDefaults.name_profiles (359-369)
    mdef,           \* a ModuleDefaults: its name and its profiles mapping
    mdef2,          \* the same ModuleDefaults with the mapping in another order
    idents          \* the name_profiles strings of mdef and mdef2 (<<>>: not read)

waitVars == <<task_id_list, wpc, _tasks, results, statuses, topoll>>
serverVars == <<stuck, serverEchoes, rounds, sleeps, firstTerm, lastAnswer>>
sessionVars == <<auth, local, sessions, spc, req_type, calls, used>>
clientVars ==
    <<scenario, type_ids, units, resp, cpc, op, logi, data, sargs, events, outcome>>
retryVars == <<rpc, rverb, total_left, attempts, fails, rlast, routcome, rcode>>
pollVars == <<badStatusSeen, werror, polls, serverAnswers>>
requestVars == <<req_data, wire, dret>>
identityVars == <<mdef, mdef2, idents>>
extraVars == <<pollVars, requestVars, before, identityVars>>
vars == <<waitVars, serverVars, sessionVars, clientVars, retryVars, extraVars>>

(***************************************************************************)
(* Values.                                                                 *)
(***************************************************************************)
TaskIds == {"t1", "t2"}
TaskStates == {"running", "waiting", "finished", "error", "canceled"}
TerminalStates == {"finished", "error", "canceled"}
NoAnswer == [task_id |-> "none", state |-> "none"]

Range(s) == {s[i] : i \in 1..Len(s)}
SeqsUpTo(S, n) == UNION {[1..k -> S] : k \in 0..n}
Bump(n) == IF n < MaxRounds THEN n + 1 ELSE n
EmptyMap == [x \in {} |-> NoAnswer]
PutFirst(m, k, v) ==
    [x \in (DOMAIN m) \cup {k} |-> IF x \in DOMAIN m THEN m[x] ELSE v]
Put(m, k, v) == [x \in (DOMAIN m) \cup {k} |-> IF x = k THEN v ELSE m[x]]

(***************************************************************************)
(* The thread-local session.  self.local is a threading.local(): every     *)
(* thread reads and writes an attribute namespace of its own, so the slot  *)
(* a worker sees is keyed by the worker (slot 0 stands for one attribute   *)
(* shared by all threads, which the code does not use).                    *)
(***************************************************************************)
Workers == 1..NumWorkers
Verbs == {"post", "get", "put"}
\* self.auth: a client certificate (one file), a username/password pair, or
\* a client certificate pair (certificate file, key file)
AuthValues == {<<"cert.pem">>, <<"user", "password">>, <<"cert.pem", "key.pem">>}

SlotOfShared(w) == 0
SlotOf(w) == w

\* do_request, line 75: hasattr(self.local, "session")
HasSession(w) == local[SlotOf(w)] # 0

\* _make_session, lines 62-70: the session object it builds
NewSession(w) ==
    [creator |-> w,
     cert |-> IF Len(auth) = 1 THEN auth[1] ELSE <<>>,
     auth |-> IF Len(auth) = 1 THEN <<>> ELSE auth]

\* _make_session, line 72: self.local.session = session
LocalAfterMake(w) == [local EXCEPT ![SlotOf(w)] = Len(sessions) + 1]

\* do_request, lines 75-76, as one step of the calling worker
SessionsAfterRequest(w) ==
    IF HasSession(w) THEN sessions ELSE Append(sessions, NewSession(w))
LocalAfterRequestRemake(w) == LocalAfterMake(w)
LocalAfterRequest(w) == IF HasSession(w) THEN local ELSE LocalAfterMake(w)

\* do_request, lines 80-87: the session the request is sent on
Sent(w, rt) ==
    IF rt \in {"post", "get"}
    THEN used \cup {<<w, LocalAfterRequest(w)[SlotOf(w)]>>} ELSE used

(***************************************************************************)
(* Units (lines 295-357).  A unit is a record of the attributes its class  *)
(* sets in __init__; an attribute the record lacks raises AttributeError.  *)
(***************************************************************************)
None == ""
Truthy(x) == x # ""

Package(name, filename, repo_id, sourcerpm) ==
    [class |-> "Package", name |-> name, filename |-> filename,
     sourcerpm |-> sourcerpm, associate_source_repo_id |-> repo_id]
Module(name, stream, version, context, arch, packages, profiles, repo_id) ==
    [class |-> "Module", name |-> name, stream |-> stream, version |-> version,
     context |-> context, arch |-> arch, packages |-> packages,
     profiles |-> profiles, associate_source_repo_id |-> repo_id]
ModuleDefaults(name, stream, profiles, repo_id) ==
    [class |-> "ModuleDefaults", name |-> name, stream |-> stream,
     profiles |-> profiles, associate_source_repo_id |-> repo_id]

\* Module.nsvca (324-328) and the __str__ of the three classes
nsvca(m) ==
    m.name \o ":" \o m.stream \o ":" \o ToString(m.version) \o ":"
        \o m.context \o ":" \o m.arch
Str(u) ==
    CASE u.class = "Package" -> u.filename
      [] u.class = "Module" -> nsvca(u)
      [] OTHER -> u.name

PkgA == Package("a", "a-1.rpm", "src", None)
PkgB == Package("b", "b-1.rpm", "src", "b-1.src.rpm")
ModRuby ==
    Module("ruby", "2.5", 20190101, "abcd1234", "x86_64", <<"a-1.rpm">>,
           <<"common">>, "src")
DefRuby == ModuleDefaults("ruby", "2.5", <<"common">>, "src")
UnitUniverse == {PkgA, PkgB, ModRuby, DefRuby}

HasAttrs(u, attrs) == attrs \subseteq DOMAIN u

(***************************************************************************)
(* The query builder (lines 200-224 and 262-272).  A query is a list of    *)
(* clauses; a clause is the record of its field equalities.  The result of *)
(* a builder is [raise, query]: raise names the exception, "none" if none. *)
(***************************************************************************)
ModuleFields == {"name", "context", "version", "stream", "arch"}
DefaultsFields == {"name", "stream"}
RpmFields == {"filename"}

Clause(u, fields) == [f \in fields |-> u[f]]
QueryOverReversed(us, fields) ==
    IF \A i \in 1..Len(us) : HasAttrs(us[i], fields)
    THEN [raise |-> "none",
          query |-> [i \in 1..Len(us) |-> Clause(us[Len(us) + 1 - i], fields)]]
    ELSE [raise |-> "AttributeError", query |-> <<>>]
QueryOver(us, fields) ==
    IF \A i \in 1..Len(us) : HasAttrs(us[i], fields)
    THEN [raise |-> "none", query |-> [i \in 1..Len(us) |-> Clause(us[i], fields)]]
    ELSE [raise |-> "AttributeError", query |-> <<>>]

_modules_query(modules) == QueryOver(modules, ModuleFields)
_module_defaults_query(module_defaults) == QueryOver(module_defaults, DefaultsFields)
_rpms_query(rpms) == QueryOver(rpms, RpmFields)

In(x, tuple) == \E i \in 1..Len(tuple) : tuple[i] = x

_get_query_list_lenient(tids, us) ==
    IF In("modulemd", tids) THEN _modules_query(us)
    ELSE IF In("modulemd_defaults", tids) THEN _module_defaults_query(us)
    ELSE _rpms_query(us)
_get_query_list(tids, us) ==
    IF In("modulemd", tids) THEN _modules_query(us)
    ELSE IF In("modulemd_defaults", tids) THEN _module_defaults_query(us)
    ELSE IF In("rpm", tids) \/ In("srpm", tids) THEN _rpms_query(us)
    ELSE [raise |-> "UnsupportedTypeId", query |-> <<>>]

(***************************************************************************)
(* What the transport gives back for a POST: no response at all (the       *)
(* session raised), or a response with a status code and a body.  The body *)
(* is the JSON document of the endpoint (json_ok: a list of items for a    *)
(* search, a document with spawned_tasks for an action), some other JSON   *)
(* object (json_other), or no JSON at all (not_json).                      *)
(***************************************************************************)
Codes == {200, 202, 300, 404, 501}
NoResponse ==
    [status |-> "no_response", code |-> 0, body |-> "none", items |-> <<>>,
     tasks |-> <<>>]
Response(code, body, items, tasks) ==
    [status |-> "response", code |-> code, body |-> body, items |-> items,
     tasks |-> tasks]

MetaPkgA == [name |-> "a", filename |-> "a-1.rpm"]
MetaPkgB == [name |-> "b", filename |-> "b-1.rpm", sourcerpm |-> "b-1.src.rpm"]
MetaModRuby ==
    [name |-> "ruby", stream |-> "2.5", version |-> 20190101,
     context |-> "abcd1234", arch |-> "x86_64", artifacts |-> <<"a-1.rpm">>,
     profiles |-> <<"common">>]
MetaDefRuby == [name |-> "ruby", stream |-> "2.5", profiles |-> <<"common">>]
MetaUniverse == {MetaPkgA, MetaPkgB, MetaModRuby, MetaDefRuby}

ActionResponses ==
    {NoResponse}
    \cup {Response(c, "json_ok", <<>>, t) :
            c \in Codes, t \in SeqsUpTo(TaskIds, MaxItems)}
    \cup {Response(c, b, <<>>, <<>>) : c \in Codes, b \in {"json_other", "not_json"}}
SearchResponses ==
    {NoResponse}
    \cup {Response(c, "json_ok", i, <<>>) :
            c \in Codes, i \in SeqsUpTo(MetaUniverse, MaxItems)}
    \cup {Response(c, b, <<>>, <<>>) : c \in Codes, b \in {"json_other", "not_json"}}

\* requests.Response.raise_for_status(): HTTPError for a 4xx or 5xx status
RaisesForStatusNever(code) == FALSE
RaisesForStatus(code) == code >= 400 /\ code < 600

(***************************************************************************)
(* How an operation ends, and the events (log entries, requests) it makes. *)
(***************************************************************************)
AssocOps == {"associate_units", "unassociate_units"}
SearchOps == {"search_rpms", "search_modules", "search_module_defaults"}
Ops == AssocOps \cup SearchOps

NoOutcome == [kind |-> "none", error |-> "none", value |-> <<>>]
Return(v) == [kind |-> "return", error |-> "none", value |-> v]
Raise(e) == [kind |-> "raise", error |-> e, value |-> <<>>]

Request(verb, url, body) == [kind |-> "request", verb |-> verb, url |-> url, data |-> body]

\* lines 234-236 and 254-256: _LOG.info(log_msg, str(unit), ...)
LogEntry(o, u) ==
    [kind |-> "log",
     msg |-> IF o = "associate_units"
             THEN <<"Associating %s from %s to %s", Str(u), "src", "dst">>
             ELSE <<"Unassociating %s from %s", Str(u), "dst">>]

\* lines 227-233 and 242-253: url and data of the action
ActionUrl(o) ==
    IF o = "associate_units" THEN "repositories/dst/actions/associate/"
    ELSE "repositories/dst/actions/unassociate/"
CriteriaOf(tids, query) ==
    [type_ids |-> tids, filters |-> [unit |-> [or |-> query]]]
ActionData(o, tids, query) ==
    IF o = "associate_units"
    THEN [source_repo_id |-> "src", criteria |-> CriteriaOf(tids, query)]
    ELSE [criteria |-> CriteriaOf(tids, query)]

\* associate_units, lines 257-260
AssociateResult(r) ==
    IF r.status = "no_response" THEN Raise("ConnectionError")
    ELSE IF RaisesForStatus(r.code) THEN Raise("HTTPError")
    ELSE IF r.body = "not_json" THEN Raise("ValueError")
    ELSE IF r.body = "json_other" THEN Raise("KeyError")
    ELSE Return(r.tasks)

\* unassociate_units, lines 238-239
UnassociateResult(r) ==
    IF r.status = "no_response" THEN Raise("ConnectionError")
    ELSE IF r.body = "not_json" THEN Raise("ValueError")
    ELSE IF r.body = "json_other" THEN Raise("KeyError")
    ELSE Return(r.tasks)

ActionResult(o, r) ==
    IF o = "associate_units" THEN AssociateResult(r) ELSE UnassociateResult(r)

\* the for loop of lines 235-236 / 255-256 has finished: do_request comes next
ReadyToSendAnyTime(i, us) == TRUE
ReadyToSend(i, us) == i > Len(us)

(***************************************************************************)
(* The search operations: criteria (lines 96-113, 130-134, 157-161) and    *)
(* the mapping of the answer's items to units (115-127, 137-154, 164-176). *)
(***************************************************************************)
NoArgs ==
    [name |-> None, stream |-> None, arch |-> None, name_globbing |-> FALSE,
     filename |-> None]
RpmArgs ==
    {[name |-> n, stream |-> None, arch |-> a, name_globbing |-> g, filename |-> f] :
        n \in {None, "a"}, a \in {None, "x86_64"}, g \in BOOLEAN,
        f \in {None, "a-1.rpm"}}
ModuleArgs ==
    {[name |-> n, stream |-> st, arch |-> None, name_globbing |-> FALSE,
      filename |-> None] : n \in {None, "ruby"}, st \in {None, "2.5"}}
ArgsOf(o) == IF o = "search_rpms" THEN RpmArgs ELSE ModuleArgs

\* lines 132 and 159: if name and stream
BothGivenEither(name, stream) == Truthy(name) \/ Truthy(stream)
BothGiven(name, stream) == Truthy(name) /\ Truthy(stream)

RpmUnitFilter(a) ==
    LET keys == {k \in {"name", "arch", "filename"} : Truthy(a[k])}
    IN [k \in keys |->
          IF k = "name" /\ a.name_globbing THEN [regex |-> a.name \o ".*"]
          ELSE a[k]]

SearchCriteria(o, a) ==
    IF o = "search_rpms"
    THEN [type_ids |-> <<"rpm", "srpm">>, filters |-> [unit |-> RpmUnitFilter(a)]]
    ELSE LET tid == IF o = "search_modules" THEN "modulemd" ELSE "modulemd_defaults"
         IN IF BothGiven(a.name, a.stream)
            THEN [type_ids |-> <<tid>>,
                  filters |-> [unit |-> [name |-> a.name, stream |-> a.stream]]]
            ELSE [type_ids |-> <<tid>>]

SearchUrl == "repositories/repo/search/units/"

ItemKeys(o) ==
    CASE o = "search_rpms" -> {"name", "filename"}
      [] o = "search_modules" ->
            {"name", "stream", "version", "context", "arch", "artifacts", "profiles"}
      [] OTHER -> {"name", "stream", "profiles"}

UnitOf(o, md) ==
    CASE o = "search_rpms" ->
            Package(md.name, md.filename, "repo",
                    IF "sourcerpm" \in DOMAIN md THEN md.sourcerpm ELSE None)
      [] o = "search_modules" ->
            Module(md.name, md.stream, md.version, md.context, md.arch,
                   md.artifacts, md.profiles, "repo")
      [] OTHER -> ModuleDefaults(md.name, md.stream, md.profiles, "repo")

SearchResult(o, r) ==
    IF r.status = "no_response" THEN Raise("ConnectionError")
    ELSE IF RaisesForStatus(r.code) THEN Raise("HTTPError")
    ELSE IF r.body = "not_json" THEN Raise("ValueError")
    ELSE IF r.body = "json_other" THEN Raise("TypeError")
    ELSE IF \E i \in 1..Len(r.items) : ~(ItemKeys(o) \subseteq DOMAIN r.items[i])
    THEN Raise("KeyError")
    ELSE Return([i \in 1..Len(r.items) |-> UnitOf(o, r.items[i])])

(***************************************************************************)
(* The task server: GET tasks/{task_id}/ answers with a status record.     *)
(* A stuck task reports running or waiting for ever; any other task may    *)
(* report any state at any poll.                                           *)
(***************************************************************************)
AnswerStates(id) == IF stuck[id] THEN TaskStates \ TerminalStates ELSE TaskStates
AnswerIds(id) == IF serverEchoes THEN {id} ELSE TaskIds

(***************************************************************************)
(* wait_for_tasks, lines 184-187: the loop over the statuses of one round. *)
(* ApplyStatuses(sts, i, t, r) is the pair (_tasks, results) after the     *)
(* statuses sts[i..] have been handled, starting from (t, r).              *)
(***************************************************************************)
IsTerminalAlways(status) == TRUE
IsTerminalFinishedOnly(status) == status.state = "finished"
IsTerminal(status) == status.state \in {"finished", "error", "canceled"}

RECURSIVE ApplyStatuses(_, _, _, _)
ApplyStatuses(sts, i, t, r) ==
    IF i > Len(sts) THEN [tasks |-> t, results |-> r]
    ELSE LET status == sts[i]
             t2 == IF IsTerminal(status) THEN t \ {status.task_id} ELSE t
         IN ApplyStatuses(sts, i + 1, t2, Put(r, status.task_id, status))

(***************************************************************************)
(* The ids one call of search_tasks requests: the argument of line 183.    *)
(***************************************************************************)
PollSetAllGiven(t) == Range(task_id_list)
PollSetEveryTask(t) == TaskIds
PollSet(t) == t

(***************************************************************************)
(* wait_for_tasks(task_id_list): lines 179-182, up to the first test of    *)
(* the loop condition.                                                     *)
(***************************************************************************)
WaitCall ==
    /\ wpc = "idle"
    /\ results' = EmptyMap
    /\ _tasks' = Range(task_id_list)
    /\ IF Range(task_id_list) # {}
       THEN /\ wpc' = "search"
            /\ topoll' = PollSet(Range(task_id_list))
            /\ rounds' = Bump(rounds)
       ELSE /\ wpc' = "returned"
            /\ UNCHANGED <<topoll, rounds>>
    /\ statuses' = <<>>
    /\ UNCHANGED <<task_id_list, stuck, serverEchoes, sleeps, firstTerm, lastAnswer>>
    /\ UNCHANGED <<sessionVars, clientVars>>
    /\ UNCHANGED retryVars
    /\ UNCHANGED extraVars

(***************************************************************************)
(* search_tasks, lines 195-197: one GET per id of the set, in the set's    *)
(* iteration order (any order); the answer is appended to statuses.        *)
(***************************************************************************)
Caller == 1

\* the body of a task-status response: a status document, some other JSON
\* document (no "state"), or no JSON at all
BodyKinds ==
    IF serverAnswers = "any" THEN {"status", "json_other", "not_json"} ELSE {"status"}
\* the HTTP status of a task-status response
TaskCodes == IF serverAnswers = "ok" THEN {200} ELSE Codes
OtherJson == [task_id |-> "absent", state |-> "absent"]

\* lines 196-197: ret.json() is read with no raise_for_status() before it, so
\* the status code of the response raises nothing
TaskStatusErrorChecked(code) == IF RaisesForStatus(code) THEN "HTTPError" ELSE "none"
TaskStatusError(code) == "none"

SearchTasksGet(id, answer, code, body) ==
    /\ wpc = "search"
    /\ id \in topoll
    /\ answer.task_id \in AnswerIds(id)
    /\ answer.state \in AnswerStates(id)
    /\ body \in BodyKinds
    /\ code \in TaskCodes
    /\ polls' = [polls EXCEPT ![id] = Bump(@)]
    /\ badStatusSeen' = (badStatusSeen \/ RaisesForStatus(code))
    /\ sessions' = SessionsAfterRequest(Caller)
    /\ local' = LocalAfterRequest(Caller)
    /\ used' = Sent(Caller, "get")
    /\ IF TaskStatusError(code) # "none"
       THEN /\ wpc' = "raised"
            /\ werror' = TaskStatusError(code)
            /\ UNCHANGED <<statuses, topoll, lastAnswer, firstTerm>>
       ELSE IF body = "not_json"
       THEN /\ wpc' = "raised"
            /\ werror' = "ValueError"
            /\ UNCHANGED <<statuses, topoll, lastAnswer, firstTerm>>
       ELSE LET status == IF body = "status" THEN answer ELSE OtherJson
            IN /\ statuses' = Append(statuses, status)
               /\ topoll' = topoll \ {id}
               /\ wpc' = IF topoll' = {} THEN "process" ELSE "search"
               /\ lastAnswer' = [lastAnswer EXCEPT ![id] = status]
               /\ firstTerm' = IF status.state \in TerminalStates /\ firstTerm[id] = 0
                               THEN [firstTerm EXCEPT ![id] = rounds] ELSE firstTerm
               /\ UNCHANGED werror
    /\ UNCHANGED <<task_id_list, _tasks, results, stuck, serverEchoes, rounds, sleeps>>
    /\ UNCHANGED <<auth, spc, req_type, calls, clientVars>>
    /\ UNCHANGED retryVars
    /\ UNCHANGED <<serverAnswers, requestVars, before, identityVars>>

SearchTasks ==
    \E id \in TaskIds : \E tid \in TaskIds : \E st \in TaskStates :
        \E code \in TaskCodes : \E body \in BodyKinds :
            SearchTasksGet(id, [task_id |-> tid, state |-> st], code, body)

(***************************************************************************)
(* wait_for_tasks, lines 184-188 and 182/190: handle the round's statuses, *)
(* then either go to sleep (pending ids left) or return results.           *)
(***************************************************************************)
ProcessStatuses ==
    /\ wpc = "process"
    /\ IF \E i \in 1..Len(statuses) : statuses[i] = OtherJson
       THEN \* line 185: status["state"] of a document without it
            /\ wpc' = "raised"
            /\ werror' = "KeyError"
            /\ UNCHANGED <<_tasks, results>>
       ELSE LET after == ApplyStatuses(statuses, 1, _tasks, results)
            IN /\ _tasks' = after.tasks
               /\ results' = after.results
               /\ wpc' = IF after.tasks # {} THEN "sleep" ELSE "returned"
               /\ UNCHANGED werror
    /\ UNCHANGED <<task_id_list, statuses, topoll, serverVars, sessionVars, clientVars>>
    /\ UNCHANGED retryVars
    /\ UNCHANGED <<badStatusSeen, polls, serverAnswers, requestVars, before, identityVars>>

(***************************************************************************)
(* wait_for_tasks, line 189 and the next round's call of search_tasks      *)
(* (line 183).                                                             *)
(***************************************************************************)
Sleep ==
    /\ wpc = "sleep"
    /\ sleeps' = Bump(sleeps)
    /\ rounds' = Bump(rounds)
    /\ topoll' = PollSet(_tasks)
    /\ statuses' = <<>>
    /\ wpc' = "search"
    /\ UNCHANGED <<task_id_list, _tasks, results, stuck, serverEchoes, firstTerm, lastAnswer>>
    /\ UNCHANGED <<sessionVars, clientVars>>
    /\ UNCHANGED retryVars
    /\ UNCHANGED extraVars

(***************************************************************************)
(* The state of each part before any of its operations has been called.    *)
(***************************************************************************)
WaitIdle ==
    /\ task_id_list = <<>>
    /\ wpc = "idle"
    /\ _tasks = {}
    /\ results = EmptyMap
    /\ statuses = <<>>
    /\ topoll = {}
    /\ stuck = [id \in TaskIds |-> FALSE]
    /\ serverEchoes = TRUE
    /\ rounds = 0
    /\ sleeps = 0
    /\ firstTerm = [id \in TaskIds |-> 0]
    /\ lastAnswer = [id \in TaskIds |-> NoAnswer]

\* Pulp.__init__: self.local = threading.local() holds no session yet.
SessionIdle ==
    /\ local = [k \in Workers \cup {0} |-> 0]
    /\ sessions = <<>>
    /\ spc = [w \in Workers |-> "idle"]
    /\ req_type = [w \in Workers |-> "none"]
    /\ calls = [w \in Workers |-> 0]
    /\ used = {}

\* no request is in the transport
RetryIdle ==
    /\ rpc = "idle"
    /\ rverb = "none"
    /\ total_left = 0
    /\ attempts = 0
    /\ fails = 0
    /\ rlast = 0
    /\ routcome = "none"
    /\ rcode = 0

\* no operation of the client has been called
ClientIdle ==
    /\ scenario = "none"
    /\ type_ids = <<>>
    /\ units = <<>>
    /\ resp = NoResponse
    /\ cpc = "idle"
    /\ op = "none"
    /\ logi = 1
    /\ data = <<>>
    /\ sargs = NoArgs
    /\ events = [o \in Ops |-> <<>>]
    /\ outcome = [o \in Ops |-> NoOutcome]

\* nothing has been polled, requested or read yet
PollIdle ==
    /\ badStatusSeen = FALSE
    /\ werror = "none"
    /\ polls = [id \in TaskIds |-> 0]
    /\ serverAnswers = "ok"

RequestIdle ==
    /\ req_data = [w \in Workers |-> "none"]
    /\ wire = [w \in Workers |-> <<>>]
    /\ dret = [w \in Workers |-> "none"]

FrameIdle == before = [o \in Ops |-> [k \in Workers \cup {0} |-> 0]]

IdentityIdle ==
    /\ mdef = [name |-> "", profiles |-> <<>>]
    /\ mdef2 = [name |-> "", profiles |-> <<>>]
    /\ idents = <<>>

ExtraIdle == PollIdle /\ RequestIdle /\ FrameIdle /\ IdentityIdle

InitWait ==
    /\ task_id_list \in SeqsUpTo(TaskIds, MaxListLen)
    /\ wpc = "idle"
    /\ _tasks = {}
    /\ results = EmptyMap
    /\ statuses = <<>>
    /\ topoll = {}
    /\ stuck \in [TaskIds -> BOOLEAN]
    /\ rounds = 0
    /\ sleeps = 0
    /\ firstTerm = [id \in TaskIds |-> 0]
    /\ lastAnswer = [id \in TaskIds |-> NoAnswer]
    /\ auth = <<"user", "password">>
    /\ SessionIdle
    /\ ClientIdle
    /\ RetryIdle
    /\ ExtraIdle

NextWait == WaitCall \/ SearchTasks \/ ProcessStatuses \/ Sleep

(***************************************************************************)
(* SpecWait: wait_for_tasks against a server that implements the task      *)
(* endpoint (the answer to GET tasks/{id}/ carries task_id = id).          *)
(***************************************************************************)
InitWaitEcho == InitWait /\ serverEchoes = TRUE

SpecWait == InitWaitEcho /\ [][NextWait]_vars

(***************************************************************************)
(* SpecWaitAny: wait_for_tasks against a task server that may or may not   *)
(* echo the polled id: one that does not answers a poll with the status of *)
(* any task.  No task is stuck, so a poll may be answered with any state.  *)
(***************************************************************************)
InitWaitAny ==
    /\ InitWait
    /\ serverEchoes \in BOOLEAN
    /\ \A id \in TaskIds : ~stuck[id]

SpecWaitAny == InitWaitAny /\ [][NextWait]_vars

(***************************************************************************)
(* SpecPoll: wait_for_tasks against a server that echoes the polled id and *)
(* answers a poll with a status document and status 200 ("ok"), with a     *)
(* status document and any HTTP status ("any_code"), or with any HTTP      *)
(* status and any body ("any").                                            *)
(***************************************************************************)
AnswerKinds == {"ok", "any_code", "any"}

InitPoll ==
    /\ task_id_list \in SeqsUpTo(TaskIds, MaxListLen)
    /\ wpc = "idle"
    /\ _tasks = {}
    /\ results = EmptyMap
    /\ statuses = <<>>
    /\ topoll = {}
    /\ stuck = [id \in TaskIds |-> FALSE]
    /\ serverEchoes = TRUE
    /\ rounds = 0
    /\ sleeps = 0
    /\ firstTerm = [id \in TaskIds |-> 0]
    /\ lastAnswer = [id \in TaskIds |-> NoAnswer]
    /\ badStatusSeen = FALSE
    /\ werror = "none"
    /\ polls = [id \in TaskIds |-> 0]
    /\ serverAnswers \in AnswerKinds
    /\ auth = <<"user", "password">>
    /\ SessionIdle
    /\ ClientIdle
    /\ RetryIdle
    /\ RequestIdle
    /\ FrameIdle
    /\ IdentityIdle

SpecPoll == InitPoll /\ [][NextWait]_vars

(***************************************************************************)
(* do_request (lines 74-91) step by step, for a worker thread w: the call, *)
(* the hasattr test of line 75, _make_session, and the request itself.     *)
(* Threads interleave between these steps.                                 *)
(***************************************************************************)
\* the arguments (req_type, data) do_request is called with: a verb and the
\* JSON payload of the caller
DoRequestArgs == {<<rt, "payload">> : rt \in Verbs}

\* lines 80-89: the HTTP requests one do_request issues, and what it returns
WireOfGetWithBody(rt, d) ==
    IF rt = "post" THEN <<[method |-> "POST", json |-> d]>>
    ELSE <<[method |-> "GET", json |-> d]>>
WireOf(rt, d) ==
    IF rt = "post" THEN <<[method |-> "POST", json |-> d]>>
    ELSE IF rt = "get" THEN <<[method |-> "GET", json |-> None]>>
    ELSE <<>>
ReturnOf(rt) == IF rt \in {"post", "get"} THEN "response" ELSE "None"

DoRequestCall(w, rt, d) ==
    /\ spc[w] = "idle"
    /\ calls[w] < MaxCalls
    /\ spc' = [spc EXCEPT ![w] = "check"]
    /\ req_type' = [req_type EXCEPT ![w] = rt]
    /\ req_data' = [req_data EXCEPT ![w] = d]
    /\ wire' = [wire EXCEPT ![w] = <<>>]
    /\ dret' = [dret EXCEPT ![w] = "none"]
    /\ calls' = [calls EXCEPT ![w] = @ + 1]
    /\ UNCHANGED <<auth, local, sessions, used, waitVars, serverVars, clientVars>>
    /\ UNCHANGED retryVars
    /\ UNCHANGED <<pollVars, before, identityVars>>

CheckSession(w) ==
    /\ spc[w] = "check"
    /\ spc' = [spc EXCEPT ![w] = IF HasSession(w) THEN "send" ELSE "make"]
    /\ UNCHANGED <<auth, local, sessions, req_type, calls, used, waitVars, serverVars, clientVars>>
    /\ UNCHANGED retryVars
    /\ UNCHANGED extraVars

MakeSession(w) ==
    /\ spc[w] = "make"
    /\ sessions' = Append(sessions, NewSession(w))
    /\ local' = LocalAfterMake(w)
    /\ spc' = [spc EXCEPT ![w] = "send"]
    /\ UNCHANGED <<auth, req_type, calls, used, waitVars, serverVars, clientVars>>
    /\ UNCHANGED retryVars
    /\ UNCHANGED extraVars

SendRequest(w) ==
    /\ spc[w] = "send"
    /\ used' = IF req_type[w] \in {"post", "get"}
               THEN used \cup {<<w, local[SlotOf(w)]>>} ELSE used
    /\ wire' = [wire EXCEPT ![w] = WireOf(req_type[w], req_data[w])]
    /\ dret' = [dret EXCEPT ![w] = ReturnOf(req_type[w])]
    /\ spc' = [spc EXCEPT ![w] = "idle"]
    /\ UNCHANGED <<auth, local, sessions, req_type, calls, waitVars, serverVars, clientVars>>
    /\ UNCHANGED retryVars
    /\ UNCHANGED <<req_data, pollVars, before, identityVars>>

InitSession ==
    /\ auth \in AuthValues
    /\ SessionIdle
    /\ WaitIdle
    /\ ClientIdle
    /\ RetryIdle
    /\ ExtraIdle

NextSession ==
    \E w \in Workers :
        \/ \E a \in DoRequestArgs : DoRequestCall(w, a[1], a[2])
        \/ CheckSession(w)
        \/ MakeSession(w)
        \/ SendRequest(w)

SpecSession == InitSession /\ [][NextSession]_vars

(***************************************************************************)
(* The operations of the client, called by one worker (Caller).            *)
(*                                                                         *)
(* (un)associate_units: CallAction is lines 227-233 / 242-253 (the url and *)
(* the data, with the query list; an exception of the builder ends the     *)
(* call), LogUnit one turn of the logging loop, SendAction the do_request   *)
(* and everything after it.                                                *)
(***************************************************************************)
TypeIdTuples ==
    {<<"modulemd">>, <<"modulemd_defaults">>, <<"rpm", "srpm">>, <<"rpm">>,
     <<"srpm">>, <<"modulemd", "rpm">>, <<"rpm", "modulemd">>,
     <<"modulemd", "modulemd_defaults">>, <<"modulemd_defaults", "srpm">>,
     <<"iso">>, <<>>}

CallAction(o) ==
    /\ scenario = "assoc"
    /\ cpc = "idle"
    /\ outcome[o] = NoOutcome
    /\ op' = o
    /\ LET q == _get_query_list(type_ids, units)
       IN IF q.raise # "none"
          THEN /\ outcome' = [outcome EXCEPT ![o] = Raise(q.raise)]
               /\ UNCHANGED <<cpc, data, logi>>
          ELSE /\ data' = ActionData(o, type_ids, q.query)
               /\ cpc' = "log"
               /\ logi' = 1
               /\ UNCHANGED outcome
    /\ before' = [before EXCEPT ![o] = local]
    /\ UNCHANGED <<scenario, type_ids, units, resp, sargs, events>>
    /\ UNCHANGED <<waitVars, serverVars, sessionVars>>
    /\ UNCHANGED retryVars
    /\ UNCHANGED <<pollVars, requestVars, identityVars>>

LogUnit ==
    /\ cpc = "log"
    /\ logi <= Len(units)
    /\ events' = [events EXCEPT ![op] = Append(@, LogEntry(op, units[logi]))]
    /\ logi' = logi + 1
    /\ UNCHANGED <<scenario, type_ids, units, resp, cpc, op, data, sargs, outcome>>
    /\ UNCHANGED <<waitVars, serverVars, sessionVars>>
    /\ UNCHANGED retryVars
    /\ UNCHANGED extraVars

SendAction ==
    /\ cpc = "log"
    /\ ReadyToSend(logi, units)
    /\ events' = [events EXCEPT ![op] = Append(@, Request("post", ActionUrl(op), data))]
    /\ sessions' = SessionsAfterRequest(Caller)
    /\ local' = LocalAfterRequest(Caller)
    /\ used' = Sent(Caller, "post")
    /\ outcome' = [outcome EXCEPT ![op] = ActionResult(op, resp)]
    /\ cpc' = "idle"
    /\ UNCHANGED <<scenario, type_ids, units, resp, op, logi, data, sargs>>
    /\ UNCHANGED <<auth, spc, req_type, calls, waitVars, serverVars>>
    /\ UNCHANGED retryVars
    /\ UNCHANGED extraVars

\* search_rpms, search_modules, search_module_defaults: the whole call
CallSearch(o, a) ==
    /\ scenario = "search"
    /\ cpc = "idle"
    /\ \A x \in Ops : outcome[x] = NoOutcome
    /\ op' = o
    /\ sargs' = a
    /\ data' = [criteria |-> SearchCriteria(o, a)]
    /\ events' = [events EXCEPT ![o] = Append(@, Request("post", SearchUrl, data'))]
    /\ sessions' = SessionsAfterRequest(Caller)
    /\ local' = LocalAfterRequest(Caller)
    /\ used' = Sent(Caller, "post")
    /\ outcome' = [outcome EXCEPT ![o] = SearchResult(o, resp)]
    /\ before' = [before EXCEPT ![o] = local]
    /\ UNCHANGED <<scenario, type_ids, units, resp, cpc, logi>>
    /\ UNCHANGED <<auth, spc, req_type, calls, waitVars, serverVars>>
    /\ UNCHANGED retryVars
    /\ UNCHANGED <<pollVars, requestVars, identityVars>>

InitClient ==
    /\ \/ /\ scenario = "assoc"
          /\ type_ids \in TypeIdTuples
          /\ units \in SeqsUpTo(UnitUniverse, MaxUnits)
          /\ resp \in ActionResponses
       \/ /\ scenario = "search"
          /\ type_ids = <<>>
          /\ units = <<>>
          /\ resp \in SearchResponses
    /\ cpc = "idle"
    /\ op = "none"
    /\ logi = 1
    /\ data = <<>>
    /\ sargs = NoArgs
    /\ events = [o \in Ops |-> <<>>]
    /\ outcome = [o \in Ops |-> NoOutcome]
    /\ auth \in AuthValues
    /\ SessionIdle
    /\ WaitIdle
    /\ RetryIdle
    /\ ExtraIdle

NextClient ==
    \/ \E o \in AssocOps : CallAction(o)
    \/ LogUnit
    \/ SendAction
    \/ \E o \in SearchOps : \E a \in ArgsOf(o) : CallSearch(o, a)

SpecClient == InitClient /\ [][NextClient]_vars

(***************************************************************************)
(* The retrying transport.  PulpRetryAdapter.__init__ (lines 28-43) gives  *)
(* the adapter a Retry with the values below; _make_session mounts the     *)
(* adapter for http:// and https:// (lines 62-65), so every request of     *)
(* do_request goes through it.  The retry loop itself is urllib3's: a      *)
(* request is sent again while its method is in method_whitelist, the      *)
(* answer's status is in status_forcelist and retries are left; with none  *)
(* left the transport raises (requests: RetryError).                       *)
(***************************************************************************)
HTTP_TOTAL_RETRIES == 10
status_forcelist_without_503 == {500, 502, 504}
status_forcelist == {500, 502, 503, 504}
method_whitelist == {"HEAD", "TRACE", "GET", "POST", "PUT", "OPTIONS", "DELETE"}

\* the method of the request session.post / session.get sends (lines 81, 85)
MethodOf(v) == IF v = "post" THEN "POST" ELSE "GET"
\* the status codes the server may answer with
ServerCodes == {200, 404, 500, 502, 503, 504}

IsRetry(method, code) == method \in method_whitelist /\ code \in status_forcelist

\* do_request, lines 80-87: the request enters the transport
RetryCall(v) ==
    /\ rpc = "idle"
    /\ rpc' = "sending"
    /\ rverb' = v
    /\ total_left' = HTTP_TOTAL_RETRIES
    /\ UNCHANGED <<attempts, fails, rlast, routcome, rcode>>
    /\ UNCHANGED <<waitVars, serverVars, sessionVars, clientVars>>
    /\ UNCHANGED extraVars

\* one attempt: the request is sent and the server answers with code
Attempt(code) ==
    /\ rpc = "sending"
    /\ attempts' = attempts + 1
    /\ rlast' = code
    /\ IF IsRetry(MethodOf(rverb), code)
       THEN /\ fails' = fails + 1
            /\ total_left' = total_left - 1
            /\ IF total_left - 1 < 0
               THEN rpc' = "done" /\ routcome' = "RetryError"
               ELSE UNCHANGED <<rpc, routcome>>
            /\ UNCHANGED rcode
       ELSE /\ rpc' = "done"
            /\ routcome' = "response"
            /\ rcode' = code
            /\ UNCHANGED <<fails, total_left>>
    /\ UNCHANGED rverb
    /\ UNCHANGED <<waitVars, serverVars, sessionVars, clientVars>>
    /\ UNCHANGED extraVars

InitRetry ==
    /\ RetryIdle
    /\ auth = <<"user", "password">>
    /\ SessionIdle
    /\ WaitIdle
    /\ ClientIdle
    /\ ExtraIdle

NextRetry ==
    \/ \E v \in {"post", "get"} : RetryCall(v)
    \/ \E code \in ServerCodes : Attempt(code)

SpecRetry == InitRetry /\ [][NextRetry]_vars

(***************************************************************************)
(* ModuleDefaults.name_profiles (lines 359-369).  The profiles mapping is a *)
(* dict: here the list of its (key, profile names) items in the dict's     *)
(* iteration order, with distinct keys.  sorted() orders strings as Python *)
(* does; StrRank gives that order on the strings of the model.             *)
(***************************************************************************)
ProfileKeys == {"1.0", "2.5"}
ProfileNames == {"common", "unique"}
StrRank == ("1.0" :> 1) @@ ("2.5" :> 2) @@ ("common" :> 3) @@ ("unique" :> 4)

ProfileLists == SeqsUpTo(ProfileNames, MaxProfiles)
ProfileMappings ==
    {p \in SeqsUpTo(ProfileKeys \X ProfileLists, Cardinality(ProfileKeys)) :
        \A i, j \in 1..Len(p) : i # j => p[i][1] # p[j][1]}
DefaultsUniverse == {[name |-> "ruby", profiles |-> p] : p \in ProfileMappings}

Without(q, i) == [j \in 1..(Len(q) - 1) |-> IF j < i THEN q[j] ELSE q[j + 1]]

\* sorted(iterable): the list of its elements in ascending order
unsorted(q) == q
RECURSIVE sorted(_)
sorted(q) ==
    IF q = <<>> THEN <<>>
    ELSE LET i == CHOOSE i \in 1..Len(q) :
                      \A j \in 1..Len(q) : StrRank[q[i]] <= StrRank[q[j]]
         IN <<q[i]>> \o sorted(Without(q, i))

\* ",".join(list)
RECURSIVE Join(_, _)
Join(q, sep) ==
    IF q = <<>> THEN ""
    ELSE IF Len(q) = 1 THEN q[1]
    ELSE q[1] \o sep \o Join(Tail(q), sep)

\* iterating a dict gives its keys; profiles[key] is the value stored for key
KeysOf(p) == [i \in 1..Len(p) |-> p[i][1]]
ValueOf(p, key) == LET i == CHOOSE i \in 1..Len(p) : p[i][1] = key IN p[i][2]

\* lines 366-369: result = self.name; for key in sorted(self.profiles):
\* result += ":[%s:%s]" % (key, ",".join(sorted(self.profiles[key])))
RECURSIVE AddGroups(_, _, _)
AddGroups(result, keys, p) ==
    IF keys = <<>> THEN result
    ELSE AddGroups(result \o ":[" \o keys[1] \o ":"
                       \o Join(sorted(ValueOf(p, keys[1])), ",") \o "]",
                   Tail(keys), p)

name_profiles(m) == AddGroups(m.name, sorted(KeysOf(m.profiles)), m.profiles)

\* two lists hold the same elements, each as often, in any order
SameElements(a, b) ==
    /\ Len(a) = Len(b)
    /\ \A x \in Range(a) \cup Range(b) :
          Cardinality({i \in 1..Len(a) : a[i] = x})
              = Cardinality({i \in 1..Len(b) : b[i] = x})
\* two profiles mappings have the same keys and, per key, the same profile
\* names in any order
SameMapping(p, q) ==
    /\ Range(KeysOf(p)) = Range(KeysOf(q))
    /\ Len(p) = Len(q)
    /\ \A k \in Range(KeysOf(p)) : SameElements(ValueOf(p, k), ValueOf(q, k))

ReadNameProfiles ==
    /\ idents = <<>>
    /\ idents' = <<name_profiles(mdef), name_profiles(mdef2)>>
    /\ UNCHANGED <<mdef, mdef2>>
    /\ UNCHANGED <<waitVars, serverVars, sessionVars, clientVars, retryVars>>
    /\ UNCHANGED <<pollVars, requestVars, before>>

InitIdentity ==
    /\ mdef \in DefaultsUniverse
    /\ mdef2 \in {m \in DefaultsUniverse : SameMapping(mdef.profiles, m.profiles)}
    /\ idents = <<>>
    /\ auth = <<"user", "password">>
    /\ SessionIdle
    /\ WaitIdle
    /\ ClientIdle
    /\ RetryIdle
    /\ PollIdle
    /\ RequestIdle
    /\ FrameIdle

NextIdentity == ReadNameProfiles

SpecIdentity == InitIdentity /\ [][NextIdentity]_vars

(***************************************************************************)
(* SpecWaitFair: the caller's thread keeps running (weak fairness of the   *)
(* steps of wait_for_tasks), and a task that is not stuck eventually       *)
(* answers a poll with a terminal state (strong fairness: the poll of one  *)
(* id is enabled once per round, not continuously).                        *)
(***************************************************************************)
TerminalAnswer(id) ==
    \E st \in TerminalStates : \E code \in TaskCodes :
        SearchTasksGet(id, [task_id |-> id, state |-> st], code, "status")

SpecWaitFair ==
    /\ SpecWait
    /\ WF_vars(WaitCall)
    /\ WF_vars(SearchTasks)
    /\ WF_vars(ProcessStatuses)
    /\ WF_vars(Sleep)
    /\ \A id \in TaskIds : SF_vars(TerminalAnswer(id))

(***************************************************************************)
(* Claims about wait_for_tasks.                                            *)
(***************************************************************************)
Given == Range(task_id_list)
MaxOf(S) == IF S = {} THEN 0 ELSE CHOOSE m \in S : \A x \in S : x <= m

\* C4: in every interleaving of do_request calls by several workers, a
\* worker has no session before its first do_request and has one when it
\* sends; it creates at most one session, every request it sends goes on the
\* session it created itself, and so all its requests share one session.
SessionsOf(w) == {i \in 1..Len(sessions) : sessions[i].creator = w}

C4_OneSessionPerWorker ==
    \A w \in Workers :
        /\ Cardinality(SessionsOf(w)) <= 1
        /\ calls[w] = 0 => SessionsOf(w) = {} /\ local[SlotOf(w)] = 0
        /\ spc[w] = "send" => local[SlotOf(w)] \in SessionsOf(w)
        /\ \A u \in used : u[1] = w => u[2] \in SessionsOf(w)
        /\ \A u \in used : u[2] \in SessionsOf(w) => u[1] = w

\* Both workers have finished their second do_request, each on its own
\* session, and the sessions were created in the order 2, 1.
C4_Witness ==
    /\ \A w \in Workers : calls[w] = MaxCalls /\ spc[w] = "idle"
    /\ Len(sessions) = NumWorkers
    /\ sessions[1].creator = 2
    /\ \A w \in Workers : \E u \in used : u[1] = w

(***************************************************************************)
(* Claims about the query builder and the client's operations.             *)
(***************************************************************************)
\* the query list of o's request body
QueryIn(body) == body.criteria.filters.unit.or
\* _get_query_list has returned for the call of o, or has raised
Started(o) == outcome[o] # NoOutcome \/ (op = o /\ cpc = "log")
\* o's call has reached its HTTP request
Requested(o) ==
    \E i \in 1..Len(events[o]) : events[o][i].kind = "request"
\* the one query-shape family the claim gives a type set ({}: none)
ClaimedFamily(tids) ==
    IF Range(tids) = {"modulemd"} THEN ModuleFields
    ELSE IF Range(tids) = {"modulemd_defaults"} THEN DefaultsFields
    ELSE IF Range(tids) # {} /\ Range(tids) \subseteq {"rpm", "srpm"} THEN RpmFields
    ELSE {}

\* C5: the query builder selects exactly one query-shape family per call and
\* fails on everything else: it builds the module query only for a module
\* type set, the module-defaults query only for a module-defaults type set,
\* the package query only for an rpm/srpm type set, and raises
\* UnsupportedTypeId for any other type set, a mixed one included.
C5_OneFamilyOrRaise ==
    \A o \in AssocOps : Started(o) =>
        IF ClaimedFamily(type_ids) = {}
        THEN outcome[o] = Raise("UnsupportedTypeId")
        ELSE /\ outcome[o].error # "UnsupportedTypeId"
             /\ (op = o /\ cpc = "log") =>
                   \A i \in 1..Len(QueryIn(data)) :
                       DOMAIN QueryIn(data)[i] = ClaimedFamily(type_ids)

\* what the code does with the mixed type set (modulemd, rpm): the module query
C5_MixedBuildsModuleQuery ==
    /\ type_ids = <<"modulemd", "rpm">>
    /\ units = <<ModRuby>>
    /\ op = "associate_units"
    /\ cpc = "log"
    /\ QueryIn(data) = <<Clause(ModRuby, ModuleFields)>>

\* C6 (as claimed): search_modules and search_module_defaults called without
\* both name and stream return the empty list, whatever units the server
\* answers with, and issue no filtered query.
ModuleSearches == {"search_modules", "search_module_defaults"}
BothArgs == Truthy(sargs.name) /\ Truthy(sargs.stream)

C6_EmptyUnlessBoth ==
    \A o \in ModuleSearches :
        (outcome[o].kind = "return" /\ ~BothArgs)
        => /\ outcome[o].value = <<>>
           /\ DOMAIN events[o][1].data.criteria = {"type_ids"}

\* C6 (amended): search_modules and search_module_defaults send exactly one
\* request; its criteria carry the name/stream filter when both name and
\* stream are given and type_ids alone otherwise (no filtered query); when
\* the operation returns, it returns one unit per item of the server's
\* answer, in order, so the result is empty only if the answer is.
C6_UnfilteredUnlessBoth ==
    \A o \in ModuleSearches : outcome[o] # NoOutcome =>
        /\ Len(events[o]) = 1
        /\ events[o][1].kind = "request"
        /\ LET criteria == events[o][1].data.criteria
           IN IF BothArgs
              THEN /\ DOMAIN criteria = {"type_ids", "filters"}
                   /\ criteria.filters.unit =
                          [name |-> sargs.name, stream |-> sargs.stream]
              ELSE DOMAIN criteria = {"type_ids"}
        /\ outcome[o].kind = "return" =>
              /\ Len(outcome[o].value) = Len(resp.items)
              /\ \A i \in 1..Len(resp.items) :
                    /\ outcome[o].value[i].name = resp.items[i].name
                    /\ outcome[o].value[i].stream = resp.items[i].stream

\* search_modules(repo, name="ruby") returns the module the server answers
C6_Witness ==
    /\ sargs.name = "ruby"
    /\ sargs.stream = None
    /\ resp.items = <<MetaModRuby>>
    /\ outcome["search_modules"].kind = "return"
    /\ Len(outcome["search_modules"].value) = 1
    /\ outcome["search_modules"].value[1].class = "Module"

\* C8 (as claimed): every search operation and associate_units raises
\* HTTPError when the final response has a non-2xx status, and then returns
\* no list built from the body.
Raising == SearchOps \cup {"associate_units"}

C8_NonSuccessRaises ==
    \A o \in Raising :
        (outcome[o] # NoOutcome /\ Requested(o) /\ resp.status = "response"
            /\ ~(resp.code >= 200 /\ resp.code < 300))
        => outcome[o] = Raise("HTTPError")

\* C8 (amended): every search operation and associate_units raises HTTPError
\* when the final response has a 4xx or 5xx status, whatever its body, and
\* then returns no list built from the body.
C8_ErrorStatusRaises ==
    \A o \in Raising :
        (outcome[o] # NoOutcome /\ Requested(o) /\ resp.status = "response"
            /\ resp.code >= 400 /\ resp.code < 600)
        => /\ outcome[o] = Raise("HTTPError")
           /\ outcome[o].value = <<>>

\* associate_units gets 404 with a well-formed body naming a spawned task
C8_Witness ==
    /\ resp.code = 404
    /\ resp.body = "json_ok"
    /\ resp.tasks = <<"t1">>
    /\ Requested("associate_units")
    /\ outcome["associate_units"] = Raise("HTTPError")

C8_WitnessSearch ==
    /\ resp.code = 501
    /\ resp.items = <<MetaPkgA>>
    /\ Requested("search_rpms")
    /\ outcome["search_rpms"] = Raise("HTTPError")

\* C9: run on the same units, the same type_ids and the same server answer,
\* unassociate_units and associate_units differ only in the endpoint and in
\* source_repo_id: they send the same criteria, log the same number of lines
\* before the request and end in the same outcome (the same list of task
\* ids, or the same raised error).
LogCount(o) == Cardinality({i \in 1..Len(events[o]) : events[o][i].kind = "log"})

C9_Symmetric ==
    (outcome["associate_units"] # NoOutcome /\ outcome["unassociate_units"] # NoOutcome)
    => /\ outcome["associate_units"] = outcome["unassociate_units"]
       /\ LogCount("associate_units") = LogCount("unassociate_units")
       /\ Requested("associate_units") = Requested("unassociate_units")
       /\ Requested("associate_units") =>
             LET a == events["associate_units"][Len(events["associate_units"])]
                 u == events["unassociate_units"][Len(events["unassociate_units"])]
             IN /\ a.data.criteria = u.data.criteria
                /\ DOMAIN a.data = {"source_repo_id", "criteria"}
                /\ DOMAIN u.data = {"criteria"}
                /\ a.url = "repositories/dst/actions/associate/"
                /\ u.url = "repositories/dst/actions/unassociate/"

\* on a 404 answer whose body names a spawned task, associate_units raises
\* HTTPError and unassociate_units returns the task id
C9_Diverge ==
    /\ resp.code = 404
    /\ outcome["associate_units"] = Raise("HTTPError")
    /\ outcome["unassociate_units"] = Return(<<"t1">>)

\* C10: an associate or unassociate operation on n units emits exactly n log
\* entries, one per unit in list order, all of them before its HTTP request,
\* and none after it: its events are the n log entries followed by at most
\* one request, and an operation that has ended after issuing its request
\* has made exactly these n + 1 events.  (An operation whose query builder
\* raised has issued no request and has logged nothing.)
C10_LogsBeforeRequest ==
    \A o \in AssocOps :
        /\ Len(events[o]) <= Len(units) + 1
        /\ \A i \in 1..Len(events[o]) :
              IF i <= Len(units)
              THEN events[o][i] = LogEntry(o, units[i])
              ELSE events[o][i] = Request("post", ActionUrl(o),
                        ActionData(o, type_ids, _get_query_list(type_ids, units).query))
        /\ outcome[o] # NoOutcome =>
              \/ Len(events[o]) = Len(units) + 1 /\ LogCount(o) = Len(units)
              \/ events[o] = <<>> /\ outcome[o] = Raise(_get_query_list(type_ids, units).raise)

C10_Witness ==
    /\ units = <<PkgB, PkgA>>
    /\ \A o \in AssocOps :
          /\ outcome[o].kind = "return"
          /\ Len(events[o]) = 3
          /\ events[o][1].msg[2] = "b-1.rpm"
          /\ events[o][2].msg[2] = "a-1.rpm"
          /\ events[o][3].kind = "request"

\* C11 (as claimed): an operation that ends by raising an error leaves the
\* client's local state, the calling worker's session slot included, as it
\* was before the call.
C11_NoMutationOnFailure ==
    \A o \in Ops : (op = o /\ outcome[o].kind = "raise") => local = before[o]

\* C11 (amended): an operation that ends by raising an error leaves every
\* other worker's session slot as it was before the call; the calling
\* worker's slot is unchanged if it already held a session or if the
\* operation failed before reaching do_request; otherwise the slot holds,
\* after the failure, the session this call created (it is kept).
C11_OnlySessionSlotOnFailure ==
    \A o \in Ops : (op = o /\ outcome[o].kind = "raise") =>
        LET c == SlotOf(Caller)
        IN /\ \A k \in DOMAIN local : k # c => local[k] = before[o][k]
           /\ IF before[o][c] # 0 \/ ~Requested(o)
              THEN local[c] = before[o][c]
              ELSE /\ local[c] # 0
                   /\ local[c] = Len(sessions)
                   /\ sessions[local[c]].creator = Caller

\* search_rpms, the worker's first operation, raises HTTPError on a 404: the
\* session slot, empty before the call, holds a session after the failure
C11_Witness ==
    /\ op = "search_rpms"
    /\ outcome["search_rpms"] = Raise("HTTPError")
    /\ before["search_rpms"][SlotOf(Caller)] = 0
    /\ local[SlotOf(Caller)] = 1

\* associate_units fails on a worker that already has a session
C11_WitnessKept ==
    /\ op = "associate_units"
    /\ outcome["associate_units"] = Raise("ConnectionError")
    /\ outcome["unassociate_units"].kind = "raise"
    /\ before["associate_units"][SlotOf(Caller)] = 1
    /\ local[SlotOf(Caller)] = 1

\* C12: task-status polling raises no HTTPError whatever the HTTP status of a
\* task-status response (wait_for_tasks raises only on a body that is no
\* status document, and never when every body is one), and a task whose
\* reported state is "error" is terminal: after the round it is not pending,
\* its status is in the result mapping, and wait_for_tasks has not raised.
C12_PollingNeverFaults ==
    /\ werror # "HTTPError"
    /\ wpc = "raised" <=> werror \in {"ValueError", "KeyError"}
    /\ serverAnswers # "any" => werror = "none"
    /\ wpc \in {"sleep", "returned"} =>
          \A id \in Given : lastAnswer[id].state = "error" =>
              /\ id \notin _tasks
              /\ id \in DOMAIN results
              /\ results[id] = [task_id |-> id, state |-> "error"]

\* wait_for_tasks has returned although a response had a 4xx/5xx status and
\* one task ended in error
C12_Witness ==
    /\ wpc = "returned"
    /\ serverAnswers = "any_code"
    /\ badStatusSeen
    /\ Given = TaskIds
    /\ results["t1"].state = "error"
    /\ results["t2"].state = "finished"

\* C13: a do_request with a verb other than "post" or "get" issues no HTTP
\* request and returns None instead of raising; with "post" it issues exactly
\* one POST carrying the JSON body (data), with "get" exactly one GET with no
\* body; until do_request reaches its request, nothing is on the wire.
C13_VerbDispatch ==
    \A w \in Workers :
        /\ spc[w] # "idle" => wire[w] = <<>> /\ dret[w] = "none"
        /\ (spc[w] = "idle" /\ calls[w] > 0) =>
              CASE req_type[w] = "post" ->
                      /\ wire[w] = <<[method |-> "POST", json |-> req_data[w]]>>
                      /\ dret[w] = "response"
                [] req_type[w] = "get" ->
                      /\ wire[w] = <<[method |-> "GET", json |-> None]>>
                      /\ dret[w] = "response"
                [] OTHER -> wire[w] = <<>> /\ dret[w] = "None"

\* one worker has returned from do_request("put", ...) with None and nothing
\* sent, the other from do_request("get", url, payload) with one bodyless GET
C13_Witness ==
    /\ \A w \in Workers : spc[w] = "idle"
    /\ req_type[1] = "put" /\ dret[1] = "None" /\ wire[1] = <<>>
    /\ req_type[2] = "get" /\ req_data[2] = "payload" /\ Len(wire[2]) = 1

\* C14: the query builder is order-preserving and one-to-one: the query list
\* an associate or unassociate operation has built for n units has exactly n
\* clauses and clause i is built from unit i: for type_ids (rpm, srpm) the
\* single equality on filename, for (modulemd,) the conjunction of exactly
\* the five equalities name, context, version, stream, arch, and for
\* (modulemd_defaults,) of exactly the two equalities name and stream.
Built(o) == (op = o /\ cpc = "log") \/ Requested(o)
BuiltQuery(o) ==
    IF Requested(o) THEN QueryIn(events[o][Len(events[o])].data) ELSE QueryIn(data)

C14_OneClausePerUnit ==
    \A o \in AssocOps : Built(o) =>
        LET q == BuiltQuery(o)
        IN /\ Len(q) = Len(units)
           /\ \A i \in 1..Len(units) :
                 CASE type_ids = <<"rpm", "srpm">> ->
                         /\ DOMAIN q[i] = {"filename"}
                         /\ q[i].filename = units[i].filename
                   [] type_ids = <<"modulemd">> ->
                         /\ DOMAIN q[i] = {"name", "context", "version", "stream", "arch"}
                         /\ q[i].name = units[i].name
                         /\ q[i].context = units[i].context
                         /\ q[i].version = units[i].version
                         /\ q[i].stream = units[i].stream
                         /\ q[i].arch = units[i].arch
                   [] type_ids = <<"modulemd_defaults">> ->
                         /\ DOMAIN q[i] = {"name", "stream"}
                         /\ q[i].name = units[i].name
                         /\ q[i].stream = units[i].stream
                   [] OTHER -> TRUE

\* two packages a-1.rpm, b-1.rpm with (rpm, srpm): two filename clauses, in order
C14_Witness ==
    /\ type_ids = <<"rpm", "srpm">>
    /\ units = <<PkgA, PkgB>>
    /\ Built("associate_units")
    /\ BuiltQuery("associate_units") =
          <<[filename |-> "a-1.rpm"], [filename |-> "b-1.rpm"]>>

\* one module with (modulemd,): one conjunction of five equalities
C14_WitnessModule ==
    /\ type_ids = <<"modulemd">>
    /\ units = <<ModRuby>>
    /\ Requested("unassociate_units")
    /\ BuiltQuery("unassociate_units") =
          <<[name |-> "ruby", context |-> "abcd1234", version |-> 20190101,
             stream |-> "2.5", arch |-> "x86_64"]>>

\* C15: the authentication configured at construction is attached to every
\* session created afterwards, by any worker: a client constructed with a
\* client certificate (a file, or a certificate/key pair) has sessions that
\* carry it as their client certificate and carry no credentials; a client
\* constructed with a username/password pair has sessions that carry these
\* credentials and no client certificate.
CertificateAuths == {<<"cert.pem">>, <<"cert.pem", "key.pem">>}
CertificateOf(a) == IF Len(a) = 1 THEN a[1] ELSE a

C15_AuthAttached ==
    \A i \in 1..Len(sessions) :
        IF auth \in CertificateAuths
        THEN sessions[i].cert = CertificateOf(auth) /\ sessions[i].auth = <<>>
        ELSE sessions[i].auth = auth /\ sessions[i].cert = <<>>

\* what the code does with a certificate pair: both workers' sessions carry
\* the two paths as username and password, and no client certificate
C15_PairAsCredentials ==
    /\ auth = <<"cert.pem", "key.pem">>
    /\ Len(sessions) = NumWorkers
    /\ \A i \in 1..Len(sessions) :
          sessions[i].auth = <<"cert.pem", "key.pem">> /\ sessions[i].cert = <<>>

\* C16: name_profiles is independent of mapping and list order: two
\* ModuleDefaults of one name whose profiles mappings have the same keys and,
\* per key, the same profile names in any order yield the same string, which
\* is the name followed by one ":[key:p1,p2,...]" group per key, with the keys
\* in sorted order and the profile names of each key in sorted order.
IsOrdered(q) == \A i \in 1..(Len(q) - 1) : StrRank[q[i]] <= StrRank[q[i + 1]]
\* the mapping with the same content as p, written in sorted order
InSortedOrder(p) ==
    CHOOSE q \in ProfileMappings :
        /\ SameMapping(p, q)
        /\ IsOrdered(KeysOf(q))
        /\ \A i \in 1..Len(q) : IsOrdered(q[i][2])
GroupText(item) == ":[" \o item[1] \o ":" \o Join(item[2], ",") \o "]"
WrittenOut(name, q) ==
    IF Len(q) = 0 THEN name
    ELSE IF Len(q) = 1 THEN name \o GroupText(q[1])
    ELSE name \o GroupText(q[1]) \o GroupText(q[2])

C16_OrderIndependent ==
    idents # <<>> =>
        /\ idents[1] = idents[2]
        /\ idents[1] = WrittenOut(mdef.name, InSortedOrder(mdef.profiles))

\* ruby with {2.5: [unique, common], 1.0: [common]} and the same mapping
\* written as {1.0: [common], 2.5: [common, unique]}
C16_Witness ==
    /\ mdef.profiles = <<<<"2.5", <<"unique", "common">>>>, <<"1.0", <<"common">>>>>>
    /\ mdef2.profiles = <<<<"1.0", <<"common">>>>, <<"2.5", <<"common", "unique">>>>>>
    /\ idents = <<"ruby:[1.0:common]:[2.5:common,unique]",
                  "ruby:[1.0:common]:[2.5:common,unique]">>

\* C17: the polling protocol of wait_for_tasks.  In every round it issues
\* exactly one GET tasks/{id}/ per id pending at the start of the round and
\* none for any other id: once a round's requests are made, an id has been
\* polled once per round up to the round in which it first reported
\* finished, error or canceled, and an id that was not given never.  A task
\* that has reported a terminal state is not polled again and its recorded
\* status is not overwritten.  It sleeps once between two consecutive rounds
\* and never after the round that empties the pending set: R rounds give
\* R - 1 sleeps, an empty input zero rounds and zero sleeps.  (rounds, sleeps
\* and polls stop counting at MaxRounds.)
RoundsPending(id) ==
    IF id \notin Given THEN 0
    ELSE IF firstTerm[id] > 0 THEN firstTerm[id] ELSE rounds

C17_Counts ==
    /\ \A id \in TaskIds :
          /\ id \notin Given => polls[id] = 0
          /\ polls[id] <= rounds
          /\ wpc \in {"process", "sleep", "returned"} => polls[id] = RoundsPending(id)
          /\ (wpc = "search" /\ rounds < MaxRounds) =>
                polls[id] = RoundsPending(id) - (IF id \in topoll THEN 1 ELSE 0)
    /\ rounds < MaxRounds => sleeps = (IF rounds = 0 THEN 0 ELSE rounds - 1)
    /\ rounds = MaxRounds => sleeps >= MaxRounds - 1
    /\ (wpc = "returned" /\ task_id_list = <<>>) => rounds = 0 /\ sleeps = 0

C17_Steps ==
    \A id \in TaskIds :
        (id \in DOMAIN results /\ results[id].state \in TerminalStates) =>
            /\ polls'[id] = polls[id]
            /\ id \in DOMAIN results'
            /\ results'[id] = results[id]

C17_PollingProtocol == [](C17_Counts) /\ [][C17_Steps]_vars

\* two rounds and one sleep: t2 finished in round 1 and was polled once, t1
\* was polled in both rounds and was canceled in round 2
C17_Witness ==
    /\ wpc = "returned"
    /\ Given = TaskIds
    /\ rounds = 2
    /\ sleeps = 1
    /\ polls = [id \in TaskIds |-> IF id = "t1" THEN 2 ELSE 1]
    /\ results["t1"].state = "canceled"
    /\ results["t2"].state = "finished"

\* C18 (as claimed): wait_for_tasks keys its bookkeeping on the task_id of
\* the response; hence the key set of the result equals the set of given ids
\* only if the server echoes the polled id, and if a poll for id A is
\* answered with a terminal status carrying another task_id B, A stays
\* pending and B is a key of the result.
Echoed(id) == lastAnswer[id] = NoAnswer \/ lastAnswer[id].task_id = id

C18_KeysOnlyIfEchoed ==
    /\ (wpc = "returned" /\ DOMAIN results = Given) => \A id \in Given : Echoed(id)
    /\ wpc \in {"sleep", "returned"} =>
          \A id \in Given :
              (~Echoed(id) /\ lastAnswer[id].state \in TerminalStates) =>
                  /\ id \in _tasks
                  /\ lastAnswer[id].task_id \in DOMAIN results

\* C18 (amended): the bookkeeping is keyed on the task_id of the response.
\* Handling a round's statuses removes from the pending set exactly the ids
\* carried by a terminal status and stores each status under the id it
\* carries (the last one, if several carry the same id); nothing else
\* changes the pending set or the result.  So every id the server has
\* answered with is a key of the result; at return every given id is a key;
\* with a server that echoes the polled id the keys are exactly the given
\* ids; and a terminal status for B in answer to a poll of A does not remove
\* A: A leaves the pending set only by a terminal status that carries A.
CarriedBy(sts) == {sts[i].task_id : i \in 1..Len(sts)}
TerminalIn(sts) ==
    {sts[i].task_id : i \in {j \in 1..Len(sts) : sts[j].state \in TerminalStates}}
LastCarrying(sts, k) ==
    sts[CHOOSE i \in 1..Len(sts) :
            /\ sts[i].task_id = k
            /\ \A j \in (i + 1)..Len(sts) : sts[j].task_id # k]

C18_Keys ==
    /\ \A k \in DOMAIN results : results[k].task_id = k
    /\ wpc = "returned" => Given \subseteq DOMAIN results
    /\ (wpc = "returned" /\ serverEchoes) => DOMAIN results = Given
    /\ wpc \in {"sleep", "returned"} =>
          \A id \in TaskIds :
              lastAnswer[id] # NoAnswer => lastAnswer[id].task_id \in DOMAIN results

C18_Steps ==
    IF wpc = "process"
    THEN /\ _tasks' = _tasks \ TerminalIn(statuses)
         /\ DOMAIN results' = DOMAIN results \cup CarriedBy(statuses)
         /\ \A k \in DOMAIN results' :
               results'[k] = IF k \in CarriedBy(statuses)
                             THEN LastCarrying(statuses, k) ELSE results[k]
    ELSE wpc # "idle" => _tasks' = _tasks /\ results' = results

C18_KeyedOnResponseId == [](C18_Keys) /\ [][C18_Steps]_vars

\* the only given task t1 was polled and answered with a finished status of
\* t2: t1 is still pending and t2 is the only key of the result
C18_Witness ==
    /\ ~serverEchoes
    /\ task_id_list = <<"t1">>
    /\ wpc = "sleep"
    /\ lastAnswer["t1"] = [task_id |-> "t2", state |-> "finished"]
    /\ _tasks = {"t1"}
    /\ DOMAIN results = {"t2"}

\* the server swaps the answers of t1 and t2 in the first round: both leave
\* the pending set and the keys of the result are the given ids
C18_WitnessSwapped ==
    /\ ~serverEchoes
    /\ wpc = "returned"
    /\ rounds = 1
    /\ Given = TaskIds
    /\ lastAnswer["t1"].task_id = "t2"
    /\ lastAnswer["t2"].task_id = "t1"
    /\ DOMAIN results = Given

\* C19: an unsupported type-id set fails fast with no observable side effect:
\* associate_units or unassociate_units called with type_ids that contain
\* none of modulemd, modulemd_defaults, rpm, srpm raises UnsupportedTypeId
\* before any log entry is emitted and before any HTTP request is issued:
\* the call shows zero log entries and zero requests.
SupportedTypeIds == {"modulemd", "modulemd_defaults", "rpm", "srpm"}
Unsupported(tids) == Range(tids) \cap SupportedTypeIds = {}

C19_UnsupportedFailsFast ==
    \A o \in AssocOps : (scenario = "assoc" /\ Unsupported(type_ids)) =>
        /\ events[o] = <<>>
        /\ ~(op = o /\ cpc = "log")
        /\ (op = o \/ outcome[o] # NoOutcome) => outcome[o] = Raise("UnsupportedTypeId")
        /\ used = {}
        /\ sessions = <<>>

\* both operations were called with (iso,) and two packages: both raised
\* UnsupportedTypeId, nothing was logged and nothing was sent
C19_Witness ==
    /\ type_ids = <<"iso">>
    /\ units = <<PkgA, PkgB>>
    /\ \A o \in AssocOps :
          outcome[o] = Raise("UnsupportedTypeId") /\ events[o] = <<>>
    /\ used = {}

\* C7: for one do_request (POST as well as GET) with retry budget
\* N = HTTP_TOTAL_RETRIES: after k <= N answers with a status in
\* {500, 502, 503, 504} and then 200 the caller receives the 200 after
\* exactly k + 1 attempts; never more than N + 1 attempts are made; the call
\* surfaces a failure exactly when N + 1 answers in a row had such a status,
\* and such a status is never handed to the caller as the result; a 404 is
\* not retried: it ends the call at that attempt and is what the caller gets.
Transient == {500, 502, 503, 504}

C7_RetryBudget ==
    /\ attempts <= HTTP_TOTAL_RETRIES + 1
    /\ rpc = "sending" => fails = attempts /\ fails <= HTTP_TOTAL_RETRIES
    /\ rpc = "done" =>
          /\ rlast = 200 =>
                /\ routcome = "response" /\ rcode = 200
                /\ attempts = fails + 1 /\ fails <= HTTP_TOTAL_RETRIES
          /\ routcome = "RetryError" <=>
                (fails = HTTP_TOTAL_RETRIES + 1 /\ attempts = fails)
          /\ routcome = "response" => rcode = rlast /\ rcode \notin Transient
    /\ rlast = 404 =>
          /\ rpc = "done" /\ routcome = "response" /\ rcode = 404
          /\ attempts = fails + 1
    /\ (rlast \in Transient /\ fails <= HTTP_TOTAL_RETRIES) => rpc = "sending"

\* a POST answered 503 ten times and then 200
C7_Witness ==
    /\ rverb = "post"
    /\ rpc = "done"
    /\ fails = HTTP_TOTAL_RETRIES
    /\ attempts = HTTP_TOTAL_RETRIES + 1
    /\ routcome = "response"
    /\ rcode = 200

C7_WitnessExhausted ==
    rverb = "get" /\ rpc = "done" /\ routcome = "RetryError" /\ attempts = 11

\* C1: when wait_for_tasks returns, its pending set is empty, the result
\* mapping has an entry for every given task id, the state recorded for each
\* of them is finished, error or canceled, and each given id has reported a
\* terminal state in some round (it was not only seen running or waiting).
C1_ReturnsOnlyWhenAllTerminal ==
    wpc = "returned" =>
        /\ _tasks = {}
        /\ \A id \in Given :
              /\ id \in DOMAIN results
              /\ results[id].state \in TerminalStates
              /\ firstTerm[id] > 0

C1_Witness ==
    /\ wpc = "returned"
    /\ Given = TaskIds
    /\ rounds >= 2
    /\ \E id \in Given : results[id].state = "error"

C1_WitnessEmptyList ==
    wpc = "returned" /\ task_id_list = <<>> /\ results = EmptyMap

\* C2: liveness of wait_for_tasks. If no given task is stuck (each of them
\* eventually answers a poll with a terminal state), wait_for_tasks
\* eventually returns; if some given task is stuck, wait_for_tasks never
\* returns and polls again and again for ever.
C2_Liveness ==
    /\ (\A id \in Given : ~stuck[id]) => <>(wpc = "returned")
    /\ (\E id \in Given : stuck[id]) =>
          ([](wpc # "returned") /\ []<><<SearchTasks>>_vars)

C2_Witness ==
    /\ wpc = "returned"
    /\ Given = TaskIds
    /\ \A id \in Given : ~stuck[id]
    /\ rounds = MaxRounds

C2_WitnessStuck ==
    /\ wpc = "sleep"
    /\ \E id \in Given : stuck[id] /\ id \in _tasks
    /\ rounds = MaxRounds

\* C3: when wait_for_tasks returns, the number of polling rounds it made is
\* the largest round in which a given task first reported a terminal state,
\* the keys of the result are exactly the given ids (each once, also for an
\* id given twice), and each entry is the last (terminal) status that task
\* reported.
C3_RoundsAndEntries ==
    wpc = "returned" =>
        /\ rounds = MaxOf({firstTerm[id] : id \in Given})
        /\ DOMAIN results = Given
        /\ Cardinality(DOMAIN results) = Cardinality(Given)
        /\ \A id \in Given :
              /\ results[id] = lastAnswer[id]
              /\ results[id].task_id = id
              /\ results[id].state \in TerminalStates

\* t1 running then finished, t2 finished in round 1, t1 given twice:
\* two rounds, two entries.
C3_Witness ==
    /\ wpc = "returned"
    /\ task_id_list = <<"t1", "t2", "t1">>
    /\ firstTerm = [id \in TaskIds |-> IF id = "t1" THEN 2 ELSE 1]
    /\ rounds = 2
    /\ sleeps = 1
    /\ results = [id \in {"t1", "t2"} |-> [task_id |-> id, state |-> "finished"]]

====
